---- MODULE Spec2Model ----
(***************************************************************************)
(* A model of the off-screen globe renderer of mullvad-slint (src/map.rs)  *)
(* and of the rendering notifier that drives it from the Slint event loop  *)
(* (src/main.rs), together with the background tasks that post closures    *)
(* to that event loop (src/main.rs, src/split_tunneling.rs).                *)
(* The shared management connection (src/rpc.rs) and the matrix helpers of *)
(* map.rs have specifications of their own: SpecRpc and SpecMath.  The UI  *)
(* callbacks that talk to the daemon are in SpecCallbacks, and the task    *)
(* that follows the daemon's events (listen_for_events) is in SpecListen.  *)
(***************************************************************************)
EXTENDS Integers, Sequences, FiniteSets, TLC

(***************************************************************************)
(* Bounds of the model.                                                    *)
(***************************************************************************)
\* Window widths range over 0..MaxWidth and heights over 0..MaxHeight
\* (a zero dimension is what a minimised or collapsed window reports).
MaxWidth == 2
MaxHeight == 1
\* Finite zoom values range over 1..MaxZoom; NaN is always included.
MaxZoom == 2
\* Closures waiting in the event loop's queue.
MaxQueue == 1
\* Daemon events waiting in the stream of events_listen.
MaxStream == 2
\* Tokio tasks that call with_rpc on the Rpc handle or a clone of it.
MaxTasks == 2
\* Connections the daemon's management socket accepts over a run.
MaxConnections == 2
\* Widths and heights handed to projection_matrix on its own range over 1..MaxSide.
MaxSide == 3

(***************************************************************************)
(* Option<T>: None is the empty sequence, Some(x) the one-element one.     *)
(***************************************************************************)
None == <<>>
Some(x) == <<x>>
IsSome(o) == o # None
Unwrap(o) == o[1]

(***************************************************************************)
(* f32.  A float is a record: nan says whether it is a NaN, v is its value *)
(* otherwise.  PartialEq on f32 is IEEE equality: a NaN equals nothing,    *)
(* itself included.                                                        *)
(***************************************************************************)
F32(x) == [nan |-> FALSE, v |-> x]
NaN == [nan |-> TRUE, v |-> 0]
F32Eq(a, b) == ~a.nan /\ ~b.nan /\ a.v = b.v
F32Neg(a) == [nan |-> a.nan, v |-> 0 - a.v]

Sizes == [width : 0..MaxWidth, height : 0..MaxHeight]
Zooms == {F32(z) : z \in 1..MaxZoom} \cup {NaN}
\* (latitude, longitude) in whole degrees: the origin, Gothenburg, the poles' meridian.
Coords == {<<0, 0>>, <<57, 12>>}
MapInputs == [size : Sizes, coords : Coords, zoom : Zooms]

(***************************************************************************)
(* u32::max                                                                *)
(***************************************************************************)
Max(a, b) == IF a >= b THEN a ELSE b

RECURSIVE Gcd(_, _)
Gcd(a, b) == IF b = 0 THEN a ELSE Gcd(b, a % b)

\* A ratio n/d of two non-negative numbers in lowest terms; <<1, 0>> is
\* +infinity and <<0, 0>> is NaN, as f32 division gives them.
Ratio(n, d) ==
    IF n = 0 /\ d = 0 THEN <<0, 0>>
    ELSE LET g == Gcd(n, d) IN <<n \div g, d \div g>>

(***************************************************************************)
(* Colors (map.rs constants).                                              *)
(***************************************************************************)
LAND_COLOR == "LAND_COLOR"
OCEAN_COLOR == "OCEAN_COLOR"
CONTOUR_COLOR == OCEAN_COLOR

(***************************************************************************)
(* Matrices are kept symbolically, by the parameters they are built from.  *)
(***************************************************************************)
MAT4_IDENTITY == [m |-> "IDENTITY"]

\* A projection that keeps the width and the height instead of their quotient.
projection_matrix_unreduced(width, height) ==
    [m |-> "perspective_rh", angle_of_view |-> 70, aspect |-> <<width, height>>]

\* projection_matrix: perspective_rh(70 degrees, width / height, 0.1, 10.0)
projection_matrix(width, height) ==
    [m |-> "perspective_rh", angle_of_view |-> 70, aspect |-> Ratio(width, height)]

\* Degrees to radians: x * (PI / 180), as a fraction of PI in lowest terms
\* with its sign.
TimesPiOver180(x) ==
    LET a == IF x < 0 THEN 0 - x ELSE x
        r == Ratio(a, 180)
    IN  [sign |-> IF x < 0 THEN 0 - 1 ELSE IF x = 0 THEN 0 ELSE 1, frac |-> r]

\* The conversion with latitude and longitude taken the other way round.
coordinates_to_theta_phi_swapped(coordinate) ==
    <<TimesPiOver180(coordinate[1]), TimesPiOver180(coordinate[2])>>

coordinates_to_theta_phi(coordinate) ==
    LET latitude == coordinate[1]
        longitude == coordinate[2]
        phi == TimesPiOver180(latitude)
        theta == TimesPiOver180(longitude)
    IN  <<theta, phi>>

\* model_view: translate(0, offset_y, -zoom) * rotate_x(phi) * rotate_y(-theta)
model_view(zoom, coords) ==
    LET tp == coordinates_to_theta_phi(coords)
        theta == tp[1]
        phi == tp[2]
    IN  [m |-> "model_view",
         translation |-> <<F32(0), F32(0), F32Neg(zoom)>>,
         rotation_x |-> phi,
         rotation_y |-> [sign |-> 0 - theta.sign, frac |-> theta.frac],
         scale |-> <<1, 1>>]

\* The model-view handed to the land block as it is.
NotScaled(mv) == mv

\* model_view * Affine3A::from_scale(Vec3::splat(0.9999))
ScaledBy9999(mv) == [mv EXCEPT !.scale = <<9999, 10000>>]

Uniforms(projection, mv, color) ==
    [projection |-> projection, model_view |-> mv, color |-> color]

(***************************************************************************)
(* wgpu.  device.create_texture returns a texture of the size it is given; *)
(* a zero width or height is a validation error of the device.             *)
(***************************************************************************)
DeviceCreateTexture(label, width, height, format, usage) ==
    [type |-> "wgpu::Texture", label |-> label, width |-> width, height |-> height,
     format |-> format, usage |-> usage,
     valid |-> (width > 0 /\ height > 0)]

\* Map::create_textures with the clamp left out.
create_textures_unclamped(width, height) ==
    [texture |-> DeviceCreateTexture("Map Texture", width, height,
                    "Rgba8UnormSrgb", {"RENDER_ATTACHMENT", "TEXTURE_BINDING"}),
     depth_texture |-> DeviceCreateTexture("Map Depth Texture", width, height,
                    "Depth32Float", {"RENDER_ATTACHMENT"})]

\* Map::create_textures
create_textures(width, height) ==
    LET w == Max(width, 1)
        h == Max(height, 1)
    IN  [texture |-> DeviceCreateTexture("Map Texture", w, h,
                        "Rgba8UnormSrgb", {"RENDER_ATTACHMENT", "TEXTURE_BINDING"}),
         depth_texture |-> DeviceCreateTexture("Map Depth Texture", w, h,
                        "Depth32Float", {"RENDER_ATTACHMENT"})]

\* Map::new
MapNew(size) ==
    LET t == create_textures(size.width, size.height)
    IN  [last_input |-> None,
         land_uniform_buffer |-> Uniforms(MAT4_IDENTITY, MAT4_IDENTITY, LAND_COLOR),
         contour_uniform_buffer |-> Uniforms(MAT4_IDENTITY, MAT4_IDENTITY, CONTOUR_COLOR),
         texture |-> t.texture,
         depth_texture |-> t.depth_texture,
         texture_size |-> <<size.width, size.height>>]

\* #[derive(PartialEq)] for MapInput, with the zoom left out.
MapInputEqNoZoom(a, b) == a.size = b.size /\ a.coords = b.coords

\* #[derive(PartialEq)] for MapInput: every field equal, floats by IEEE equality.
MapInputEq(a, b) == a.size = b.size /\ a.coords = b.coords /\ F32Eq(a.zoom, b.zoom)

\* A cache check that never hits.
CacheNeverHits(last_input, inp) == FALSE

\* self.last_input.as_ref() == Some(&input)
CacheHit(last_input, inp) == IsSome(last_input) /\ MapInputEq(Unwrap(last_input), inp)

\* (input.size.width, input.size.height), the clamp left out.
NewSizeUnclamped(size) == <<size.width, size.height>>

\* (input.size.width.max(1), input.size.height.max(1))
NewSize(size) == <<Max(size.width, 1), Max(size.height, 1)>>

\* A render that leaves the cached input as it was.
LastInputKept(m, inp) == m

\* self.last_input = Some(input)
SetLastInput(m, inp) == [m EXCEPT !.last_input = Some(inp)]

\* A resize test that never asks for new textures.
NeverResize(texture_size, new_size) == FALSE

\* self.texture_size != new_size
NeedsResize(texture_size, new_size) == texture_size # new_size

\* A write that never reaches the buffer.
QueueWriteBufferDropped(buffer, data) == buffer

\* self.queue.write_buffer(&buffer, 0, bytemuck::bytes_of(&uniforms)): the
\* whole block is replaced.
QueueWriteBuffer(buffer, data) == data

\* A render pass that stops after the land draw.
RenderPassLandOnly ==
    << [op |-> "clear", color |-> <<0, 0, 0, 0>>, depth |-> 1],
       [op |-> "draw_indexed", pipeline |-> "pipeline", bind_group |-> "land_bind_group"] >>

\* The command buffer of one render pass.
RenderPassCommands ==
    << [op |-> "clear", color |-> <<0, 0, 0, 0>>, depth |-> 1],
       [op |-> "draw_indexed", pipeline |-> "pipeline", bind_group |-> "land_bind_group"],
       [op |-> "draw", pipeline |-> "contour_pipeline", bind_group |-> "contour_bind_group"] >>

\* What render hands back with the depth texture in place of the color one.
RenderedDepthTexture(m) == Some(m.depth_texture)

\* Some(self.texture.clone())
RenderedTexture(m) == Some(m.texture)


\* An import that refuses every texture.
ImageTryFromFails(texture) == None

\* slint::Image::try_from(texture): Slint imports a texture it can sample.
ImageTryFrom(texture) ==
    IF texture.format = "Rgba8UnormSrgb" /\ "TEXTURE_BINDING" \in texture.usage
    THEN Some(texture) ELSE None

(***************************************************************************)
(* State.                                                                  *)
(***************************************************************************)
VARIABLES
    map_renderer,       \* Option<map::Map>, owned by the rendering notifier
    app_alive,          \* whether app_weak.upgrade() succeeds
    window_size,        \* app.window().size()
    latitude,           \* app.get_latitude()
    longitude,          \* app.get_longitude()
    zoom,               \* app.get_zoom()
    app_map,            \* the image last given to app.set_map
    redraw_requested,   \* app.window().request_redraw() is pending
    pc,                 \* where the event-loop thread is
    ret,                \* what render returned to the notifier
    submitted,          \* the command buffer last given to queue.submit
    call,               \* bookkeeping of the current or last render call
    prev,               \* bookkeeping of the render call before it on this Map
    rendering,          \* number of render calls entered and not yet returned
    lifecycle,          \* "uninit", "ready" (WGPU setup seen) or "torn"
    frame_skipped,      \* the last BeforeRendering found nothing to render with
    loop_queue,         \* closures posted with upgrade_in_event_loop
    last_latlong,       \* listen_for_events' last_latlong
    st_state,           \* SplitTunneling.state
    app_list,           \* SplitTunneling.app_list
    loader,             \* the load_app_list blocking task
    rpc_option,         \* Rpc.rpc: the Option<MullvadProxyClient> inside the mutex
    rpc_owner,          \* the task holding the OwnedMutexGuard of Rpc.rpc, if any
    rpc_task,           \* the with_rpc call of each tokio task
    established,        \* management connections opened so far
    math_args,          \* arguments for the matrix helpers
    math_out,           \* what the matrix helpers returned for them
    daemon_relay,       \* the daemon's Settings.relay_settings
    daemon_tunnel,      \* the daemon's TunnelState
    cb,                 \* the tasks spawned by the UI callbacks of main.rs
    listener,           \* the task of listen_for_events and its event stream
    ui                  \* what the State global of the UI shows

vars == <<map_renderer, app_alive, window_size, latitude, longitude, zoom,
          app_map, redraw_requested, pc, ret, submitted, call, prev,
          rendering, lifecycle, frame_skipped, loop_queue, last_latlong, st_state, app_list,
          loader, rpc_option, rpc_owner, rpc_task, established, math_args, math_out,
          daemon_relay, daemon_tunnel, cb, listener, ui>>

appVars == <<window_size, latitude, longitude, zoom>>
bgVars == <<loop_queue, last_latlong, st_state, app_list, loader>>
callVars == <<call, prev, rendering>>
rpcVars == <<rpc_option, rpc_owner, rpc_task, established>>
mathVars == <<math_args, math_out>>
daemonVars == <<daemon_relay, daemon_tunnel, cb>>
listenVars == <<listener, ui>>
auxVars == <<rpcVars, mathVars, daemonVars, listenVars>>

\* The MapInput of the current (or last) render call.
input == call.input

NoInput == [size |-> [width |-> 0, height |-> 0], coords |-> <<0, 0>>, zoom |-> F32(1)]
NoCall == [stage |-> "none", input |-> NoInput, hit |-> FALSE,
           created |-> 0, writes |-> 0, subs |-> 0]

(***************************************************************************)
(* Rpc (src/rpc.rs): a lazily opened management connection shared by the   *)
(* tasks that hold a clone of the handle.                                  *)
(***************************************************************************)
Tasks == 1..MaxTasks

\* Rpc::new: no connection yet
RpcNew == None

\* A with_rpc call that has not started.
NoTask == [pc |-> "idle", client |-> None, connect |-> "none",
           f_result |-> "none", result |-> "none"]

\* A check that asks for a new connection whatever the mutex holds.
NeedsConnectAlways(rpc_opt) == TRUE

\* if rpc_option.is_none()
NeedsConnect(rpc_opt) == rpc_opt = None

\* A with_rpc that reports success when the connection could not be opened.
WithRpcResultSwallowed(connect, f_result) ==
    IF connect = "Err" THEN "Ok" ELSE f_result

\* What with_rpc returns: the `?` on the connection attempt, else f(rpc).await
WithRpcResult(connect, f_result) ==
    IF connect = "Err" THEN "Err" ELSE f_result

(***************************************************************************)
(* Arguments for the matrix helpers taken on their own.                    *)
(***************************************************************************)
Sides == 1..MaxSide
\* Latitudes and longitudes in whole degrees.
Degrees == {0 - 90, 0, 90, 180}
MathArgs == [w1 : Sides, h1 : Sides, w2 : Sides, h2 : Sides,
             coordinate : Degrees \X Degrees]
NoArgs == [w1 |-> 1, h1 |-> 1, w2 |-> 1, h2 |-> 1, coordinate |-> <<0, 0>>]
NoOut == [projection |-> None, theta_phi |-> None]

(***************************************************************************)
(* The daemon's settings and tunnel state as the management interface      *)
(* shows them (mullvad_types), and the tasks of the UI callbacks.          *)
(***************************************************************************)
\* Constraint<T>
ConstraintAny == <<"Any">>
Only(x) == <<"Only", x>>

\* RelaySettings
Normal(relay_constraints) == [kind |-> "Normal", relay_constraints |-> relay_constraints]
CustomTunnelEndpoint == [kind |-> "CustomTunnelEndpoint"]

\* RelayConstraints, the two fields the callbacks write
RelayConstraints(location, ip_version) ==
    [location |-> location, wireguard_ip_version |-> ip_version]

\* impl From<DeviceIpVersion> for Constraint<IpVersion>
IpVersionFromDevice(device_ip_version) ==
    CASE device_ip_version = "Auto" -> ConstraintAny
      [] device_ip_version = "Ipv4" -> Only("V4")
      [] device_ip_version = "Ipv6" -> Only("V6")

\* Constraint::Only(LocationConstraint::Location(geographic_location))
LocationOnly(geographic_location) == Only([Location |-> geographic_location])

\* What the select-country, select-city and select-relay callbacks are given.
GeographicLocations ==
    {<<"Country", "se">>, <<"City", "se", "got">>, <<"Hostname", "se", "got", "se-got-wg-001">>}
DeviceIpVersions == {"Ipv4", "Ipv6"}
TunnelStates == {"Disconnected", "Connecting", "Connected", "Disconnecting", "Error"}

\* The two tasks of UI callbacks that may be running at a time.
Callbacks == {"first", "second"}
Invocations ==
    {[kind |-> "select_location", arg |-> g] : g \in GeographicLocations}
    \cup {[kind |-> "set_device_ip_version", arg |-> v] : v \in DeviceIpVersions}
    \cup {[kind |-> "connect_button", arg |-> None]}

NoCallback == [kind |-> "none", arg |-> None, pc |-> "idle", read |-> None,
               new |-> None, calls |-> <<>>, result |-> "none"]

\* A bail! that is taken for success.
BailSwallowed == "Ok"

\* bail!("Can't configure custom relays")
Bail == "Err"

\* let RelaySettings::Normal(mut relay_constraints) = relay_settings else { bail }
IsNormal(relay_settings) == relay_settings.kind = "Normal"

\* A test that takes an error state for disconnected as well.
is_disconnected_or_error(tunnel_state) == tunnel_state \in {"Disconnected", "Error"}

\* TunnelState::is_disconnected
is_disconnected(tunnel_state) == tunnel_state = "Disconnected"

\* impl From<&TunnelState> for ConnectionState
ConnectionStateFrom(tunnel_state) ==
    CASE tunnel_state = "Disconnected" -> "ConnectionState::Disconnected"
      [] tunnel_state = "Connecting" -> "ConnectionState::Connecting"
      [] tunnel_state = "Connected" -> "ConnectionState::Connected"
      [] tunnel_state = "Disconnecting" -> "ConnectionState::Disconnecting"
      [] tunnel_state = "Error" -> "ConnectionState::Error"

\* impl From<Constraint<IpVersion>> for DeviceIpVersion
DeviceIpVersionFrom(ip_version) ==
    CASE ip_version = ConstraintAny -> "Auto"
      [] ip_version = Only("V4") -> "Ipv4"
      [] ip_version = Only("V6") -> "Ipv6"

\* update_relay_settings: what the UI is given for these relay settings
update_relay_settings(relay_settings) ==
    LET shown(v, country, city, relay) ==
            [device_ip_version |-> v, selected_country |-> country,
             selected_city |-> city, selected_relay |-> relay]
    IN  IF ~IsNormal(relay_settings) THEN shown("Auto", "", "", "")
        ELSE LET rc == relay_settings.relay_constraints
                 v == DeviceIpVersionFrom(rc.wireguard_ip_version)
                 g == rc.location[2].Location
             IN  IF rc.location = ConstraintAny THEN shown(v, "", "", "")
                 ELSE CASE g[1] = "Country" -> shown(v, g[2], "", "")
                        [] g[1] = "City" -> shown(v, g[2], g[3], "")
                        [] g[1] = "Hostname" -> shown(v, g[2], g[3], g[4])

\* The order of the requests listen_for_events makes with the read of the
\* state ahead of the subscription.
ListenerStepsReadFirst == <<"get_tunnel_state", "get_settings", "events_listen">>

\* The order of the requests listen_for_events makes before its loop.
ListenerSteps == <<"events_listen", "get_tunnel_state", "get_settings">>

\* listen_for_events about to make its first request; nothing shown yet.
NoListener == [pc |-> "setup", step |-> 1, subscribed |-> FALSE, events |-> <<>>,
               tunnel_state |-> None, settings |-> None]
NoUi == [conn |-> None, relay |-> None, connecting_to_service |-> None]

\* The relay settings the daemon goes through while the listener runs.
ListenRelaySettings ==
    {Normal(RelayConstraints(ConstraintAny, ConstraintAny)),
     Normal(RelayConstraints(LocationOnly(<<"City", "se", "got">>), Only("V6"))),
     CustomTunnelEndpoint}

\* The relay settings the daemon may have when the window opens.
InitialRelaySettings == {Normal(RelayConstraints(ConstraintAny, ConstraintAny)), CustomTunnelEndpoint}

\* The state after main has built the window, the Rpc handle and the notifier.
InitApp ==
    /\ map_renderer = None
    /\ app_alive = TRUE
    /\ window_size \in Sizes
    /\ latitude = 0
    /\ longitude = 0
    /\ zoom \in Zooms
    /\ app_map = None
    /\ redraw_requested = FALSE
    /\ pc = "idle"
    /\ ret = None
    /\ submitted = None
    /\ call = NoCall
    /\ prev = None
    /\ rendering = 0
    /\ lifecycle = "uninit"
    /\ frame_skipped = FALSE
    /\ loop_queue = <<>>
    /\ last_latlong = <<0, 0>>
    /\ st_state = "None"
    /\ app_list = None
    /\ loader = "unspawned"
    /\ rpc_option = RpcNew
    /\ rpc_owner = None
    /\ rpc_task = [t \in Tasks |-> NoTask]
    /\ established = 0

\* The daemon and the callback tasks at rest.
InitDaemon ==
    /\ daemon_relay = Normal(RelayConstraints(ConstraintAny, ConstraintAny))
    /\ daemon_tunnel = "Disconnected"
    /\ cb = [i \in Callbacks |-> NoCallback]
    /\ listener = NoListener
    /\ ui = NoUi

Init ==
    /\ InitApp
    /\ math_args = NoArgs
    /\ math_out = NoOut
    /\ InitDaemon

(***************************************************************************)
(* The Slint event loop runs the notifier, the UI callbacks and the posted *)
(* closures one at a time on the main thread.                              *)
(***************************************************************************)
\* An event loop that would run a callback while another one is running.
LoopReentrant == pc # "panicked"

LoopIdle == pc = "idle"

\* A notifier that renders whether or not it holds a renderer.
CanRenderAlways(renderer, alive) == TRUE

\* if let (Some(map), Some(app)) = (map_renderer.as_mut(), app_weak.upgrade())
CanRender(renderer, alive) == IsSome(renderer) /\ alive

(***************************************************************************)
(* The rendering notifier.                                                 *)
(***************************************************************************)
\* RenderingState::RenderingSetup
RenderingSetup(api) ==
    /\ LoopIdle
    /\ IF api = "WGPU28"
       THEN IF app_alive
            THEN /\ map_renderer' = Some(MapNew(window_size))
                 /\ lifecycle' = "ready"
                 /\ call' = NoCall
                 /\ prev' = None
                 /\ UNCHANGED pc
            ELSE \* app_weak.upgrade().unwrap() panics
                 /\ pc' = "panicked"
                 /\ UNCHANGED <<map_renderer, lifecycle, call, prev>>
       ELSE UNCHANGED <<map_renderer, lifecycle, call, prev, pc>>
    /\ frame_skipped' = FALSE
    /\ UNCHANGED <<app_alive, appVars, app_map, redraw_requested, ret,
                   submitted, rendering, bgVars>>
    /\ UNCHANGED auxVars

\* RenderingState::BeforeRendering, up to the call of map.render
BeforeRendering ==
    /\ LoopIdle
    /\ frame_skipped' = ~CanRender(map_renderer, app_alive)
    /\ redraw_requested' = FALSE
    /\ IF CanRender(map_renderer, app_alive)
       THEN /\ prev' = IF call.stage = "returned" THEN Some(call) ELSE None
            /\ call' = [NoCall EXCEPT !.stage = "running",
                                      !.input = [size |-> window_size,
                                                 coords |-> <<latitude, longitude>>,
                                                 zoom |-> zoom]]
            /\ rendering' = rendering + 1
            /\ pc' = "render"
       ELSE UNCHANGED <<prev, call, rendering, pc>>
    /\ UNCHANGED <<map_renderer, app_alive, appVars, app_map, ret, submitted,
                   lifecycle, bgVars>>
    /\ UNCHANGED auxVars

\* Map::render: the change detection
RenderCheck ==
    /\ pc = "render"
    /\ IF CacheHit(Unwrap(map_renderer).last_input, input)
       THEN /\ ret' = None
            /\ call' = [call EXCEPT !.stage = "returned", !.hit = TRUE]
            /\ rendering' = rendering - 1
            /\ pc' = "notify"
       ELSE /\ pc' = "resize"
            /\ UNCHANGED <<ret, call, rendering>>
    /\ UNCHANGED <<map_renderer, app_alive, appVars, app_map, redraw_requested,
                   submitted, prev, lifecycle, frame_skipped, bgVars>>
    /\ UNCHANGED auxVars

\* Map::render: resize textures if needed
RenderResize ==
    /\ pc = "resize"
    /\ LET m == Unwrap(map_renderer)
           new_size == NewSize(input.size)
           t == create_textures(new_size[1], new_size[2])
       IN  IF NeedsResize(m.texture_size, new_size)
           THEN /\ map_renderer' = Some([m EXCEPT !.texture = t.texture,
                                                  !.depth_texture = t.depth_texture,
                                                  !.texture_size = new_size])
                /\ call' = [call EXCEPT !.created = @ + 1]
           ELSE UNCHANGED <<map_renderer, call>>
    /\ pc' = "set_last_input"
    /\ UNCHANGED <<app_alive, appVars, app_map, redraw_requested, ret,
                   submitted, prev, rendering, lifecycle, frame_skipped, bgVars>>
    /\ UNCHANGED auxVars

\* Map::render: self.last_input = Some(input)
RenderSetLastInput ==
    /\ pc = "set_last_input"
    /\ map_renderer' = Some(SetLastInput(Unwrap(map_renderer), input))
    /\ pc' = "update_uniforms"
    /\ UNCHANGED <<app_alive, appVars, app_map, redraw_requested, ret,
                   submitted, callVars, lifecycle, frame_skipped, bgVars>>
    /\ UNCHANGED auxVars

\* Map::render: update uniforms
RenderUpdateUniforms ==
    /\ pc = "update_uniforms"
    /\ LET m == Unwrap(map_renderer)
           projection == projection_matrix(input.size.width, input.size.height)
           mv == model_view(input.zoom, input.coords)
           land_uniforms == Uniforms(projection, ScaledBy9999(mv), LAND_COLOR)
           contour_uniforms == Uniforms(projection, mv, CONTOUR_COLOR)
       IN  map_renderer' = Some([m EXCEPT
                !.land_uniform_buffer = QueueWriteBuffer(@, land_uniforms),
                !.contour_uniform_buffer = QueueWriteBuffer(@, contour_uniforms)])
    /\ call' = [call EXCEPT !.writes = @ + 2]
    /\ pc' = "submit"
    /\ UNCHANGED <<app_alive, appVars, app_map, redraw_requested, ret,
                   submitted, prev, rendering, lifecycle, frame_skipped, bgVars>>
    /\ UNCHANGED auxVars

\* Map::render: encode the render pass, submit it and return the texture
RenderSubmit ==
    /\ pc = "submit"
    /\ LET m == Unwrap(map_renderer)
       IN  /\ submitted' = Some([commands |-> RenderPassCommands,
                                 color_view |-> m.texture,
                                 depth_view |-> m.depth_texture,
                                 land_uniforms |-> m.land_uniform_buffer,
                                 contour_uniforms |-> m.contour_uniform_buffer])
           /\ ret' = RenderedTexture(m)
    /\ call' = [call EXCEPT !.stage = "returned", !.subs = @ + 1]
    /\ rendering' = rendering - 1
    /\ pc' = "notify"
    /\ UNCHANGED <<map_renderer, app_alive, appVars, app_map, redraw_requested,
                   prev, lifecycle, frame_skipped, bgVars>>
    /\ UNCHANGED auxVars

\* RenderingState::BeforeRendering, after map.render returned
NotifierFinish ==
    /\ pc = "notify"
    /\ app_map' = IF IsSome(ret) /\ IsSome(ImageTryFrom(Unwrap(ret)))
                  THEN ImageTryFrom(Unwrap(ret))
                  ELSE app_map
    /\ redraw_requested' = TRUE
    /\ ret' = None
    /\ submitted' = None
    /\ prev' = None
    /\ pc' = "idle"
    /\ UNCHANGED <<map_renderer, app_alive, appVars, call, rendering,
                   lifecycle, frame_skipped, bgVars>>
    /\ UNCHANGED auxVars

\* RenderingState::RenderingTeardown
RenderingTeardown ==
    /\ LoopIdle
    /\ map_renderer' = None
    /\ lifecycle' = IF lifecycle = "uninit" THEN "uninit" ELSE "torn"
    /\ call' = NoCall
    /\ prev' = None
    /\ frame_skipped' = FALSE
    /\ UNCHANGED <<app_alive, appVars, app_map, redraw_requested, pc, ret,
                   submitted, rendering, bgVars>>
    /\ UNCHANGED auxVars

(***************************************************************************)
(* The window and the UI, on the event-loop thread.                        *)
(***************************************************************************)
\* The window is resized (or minimised: a zero dimension).
WindowResized(size) ==
    /\ LoopIdle
    /\ app_alive
    /\ size # window_size
    /\ window_size' = size
    /\ UNCHANGED <<map_renderer, app_alive, latitude, longitude, zoom, app_map,
                   redraw_requested, pc, ret, submitted, callVars,
                   lifecycle, frame_skipped, bgVars>>
    /\ UNCHANGED auxVars

\* The UI animates the zoom property.
ZoomChanged(z) ==
    /\ LoopIdle
    /\ app_alive
    /\ z # zoom
    /\ zoom' = z
    /\ UNCHANGED <<map_renderer, app_alive, window_size, latitude, longitude,
                   app_map, redraw_requested, pc, ret, submitted, callVars,
                   lifecycle, frame_skipped, bgVars>>
    /\ UNCHANGED auxVars

\* The window is closed and the AppWindow dropped.
AppDropped ==
    /\ LoopIdle
    /\ app_alive
    /\ app_alive' = FALSE
    /\ UNCHANGED <<map_renderer, appVars, app_map, redraw_requested, pc, ret, submitted, callVars, lifecycle, frame_skipped, bgVars>>
    /\ UNCHANGED auxVars

(***************************************************************************)
(* Background tasks on the tokio runtime.  They never touch the Map: what  *)
(* they have for the UI they post to the event loop as a closure.          *)
(***************************************************************************)
Closure(kind, latlong) == [kind |-> kind, latlong |-> latlong]

\* app_weak.upgrade_in_event_loop(closure)
Post(closure) ==
    /\ Len(loop_queue) < MaxQueue
    /\ loop_queue' = Append(loop_queue, closure)

\* listen_for_events: update_state for a tunnel state with this location
ListenerUpdateState(location) ==
    /\ LET new == IsSome(location) /\ Unwrap(location) # last_latlong
       IN  /\ last_latlong' = IF new THEN Unwrap(location) ELSE last_latlong
           /\ Post(Closure("update_state", IF new THEN location ELSE None))
    /\ UNCHANGED <<map_renderer, app_alive, appVars, app_map, redraw_requested,
                   pc, ret, submitted, callVars, lifecycle, frame_skipped, st_state,
                   app_list, loader>>
    /\ UNCHANGED auxVars

\* load_app_list: the scan is over, the entries go to the GUI
LoadAppList ==
    /\ loader = "running"
    /\ Post(Closure("set_app_list", None))
    /\ loader' = "done"
    /\ UNCHANGED <<map_renderer, app_alive, appVars, app_map, redraw_requested,
                   pc, ret, submitted, callVars, lifecycle, frame_skipped, last_latlong,
                   st_state, app_list>>
    /\ UNCHANGED auxVars

\* SplitTunneling.on_enter_view
EnterView ==
    /\ LoopIdle
    /\ app_alive
    /\ Post(Closure("enter_view", None))
    /\ UNCHANGED <<map_renderer, app_alive, appVars, app_map, redraw_requested,
                   pc, ret, submitted, callVars, lifecycle, frame_skipped, last_latlong,
                   st_state, app_list, loader>>
    /\ UNCHANGED auxVars

\* listen_for_events: update_state for a tunnel state with this location, its
\* closure run by the event loop before anything else happens there.
UpdateLocation(location) ==
    /\ LoopIdle
    /\ loop_queue = <<>>
    /\ LET new == IsSome(location) /\ Unwrap(location) # last_latlong
       IN  /\ last_latlong' = IF new THEN Unwrap(location) ELSE last_latlong
           /\ IF app_alive /\ new
              THEN /\ latitude' = Unwrap(location)[1]
                   /\ longitude' = Unwrap(location)[2]
              ELSE UNCHANGED <<latitude, longitude>>
    /\ UNCHANGED <<map_renderer, app_alive, window_size, zoom, app_map,
                   redraw_requested, pc, ret, submitted, callVars, lifecycle,
                   frame_skipped, loop_queue, st_state, app_list, loader>>
    /\ UNCHANGED auxVars

\* The event loop runs the closure at the head of its queue.
Head1(kind) ==
    /\ LoopIdle
    /\ loop_queue # <<>>
    /\ Head(loop_queue).kind = kind
    /\ loop_queue' = Tail(loop_queue)

\* the closure of update_state
RunUpdateState ==
    /\ Head1("update_state")
    /\ LET latlong == Head(loop_queue).latlong
       IN  IF app_alive /\ IsSome(latlong)
           THEN /\ latitude' = Unwrap(latlong)[1]
                /\ longitude' = Unwrap(latlong)[2]
           ELSE UNCHANGED <<latitude, longitude>>
    /\ UNCHANGED <<map_renderer, app_alive, window_size, zoom, app_map,
                   redraw_requested, pc, ret, submitted, callVars,
                   lifecycle, frame_skipped, last_latlong, st_state, app_list, loader>>
    /\ UNCHANGED auxVars

\* An enter-view closure that loads whatever the state is.
StateIsAnything(state) == TRUE

\* let SplitTunnelingState::None = st.get_state() else { return; }
StateIsNone(state) == state = "None"

\* the closure of on_enter_view
RunEnterView ==
    /\ Head1("enter_view")
    /\ IF app_alive /\ StateIsNone(st_state)
       THEN /\ st_state' = "LoadingApps"
            /\ loader' = "running"
       ELSE UNCHANGED <<st_state, loader>>
    /\ UNCHANGED <<map_renderer, app_alive, appVars, app_map, redraw_requested,
                   pc, ret, submitted, callVars, lifecycle, frame_skipped, last_latlong,
                   app_list>>
    /\ UNCHANGED auxVars

\* the closure of load_app_list
RunSetAppList ==
    /\ Head1("set_app_list")
    /\ IF app_alive
       THEN /\ app_list' = Some("entries")
            /\ st_state' = "Available"
       ELSE UNCHANGED <<app_list, st_state>>
    /\ UNCHANGED <<map_renderer, app_alive, appVars, app_map, redraw_requested,
                   pc, ret, submitted, callVars, lifecycle, frame_skipped, last_latlong,
                   loader>>
    /\ UNCHANGED auxVars

GraphicsAPIs == {"WGPU28", "NativeOpenGL"}
Locations == {None} \cup {Some(c) : c \in Coords}

(***************************************************************************)
(* Spec: the renderer under every sequence of notifier events, window      *)
(* resizes, zoom changes and location updates (each location update taken  *)
(* with the run of its closure, the event-loop queue staying empty).       *)
(***************************************************************************)
Next ==
    \/ \E api \in GraphicsAPIs : RenderingSetup(api)
    \/ BeforeRendering
    \/ RenderCheck
    \/ RenderResize
    \/ RenderSetLastInput
    \/ RenderUpdateUniforms
    \/ RenderSubmit
    \/ NotifierFinish
    \/ RenderingTeardown
    \/ \E size \in Sizes : WindowResized(size)
    \/ \E z \in Zooms : ZoomChanged(z)
    \/ AppDropped
    \/ \E location \in Locations : UpdateLocation(location)

Spec == Init /\ [][Next]_vars

(***************************************************************************)
(* SpecLoop: the event loop with the background tasks (the daemon event    *)
(* listener, the app-list loader) running beside it and posting closures   *)
(* to its queue, for a window of fixed size and zoom.                      *)
(***************************************************************************)
NextLoop ==
    \/ \E api \in GraphicsAPIs : RenderingSetup(api)
    \/ BeforeRendering
    \/ RenderCheck
    \/ RenderResize
    \/ RenderSetLastInput
    \/ RenderUpdateUniforms
    \/ RenderSubmit
    \/ NotifierFinish
    \/ RenderingTeardown
    \/ AppDropped
    \/ \E location \in Locations : ListenerUpdateState(location)
    \/ LoadAppList
    \/ EnterView
    \/ RunUpdateState
    \/ RunEnterView
    \/ RunSetAppList

InitLoop ==
    /\ Init
    /\ window_size = [width |-> MaxWidth, height |-> MaxHeight]
    /\ zoom = F32(1)

SpecLoop == InitLoop /\ [][NextLoop]_vars

(***************************************************************************)
(* SpecLoopFair: SpecLoop under fair scheduling.  A callback the event     *)
(* loop has started runs to its end; a closure at the head of the queue is *)
(* run once the loop is idle again, however often the notifier gets in     *)
(* first; the blocking task of load_app_list finishes and posts its        *)
(* closure (upgrade_in_event_loop never blocks: the queue's bound is the   *)
(* model's).                                                               *)
(***************************************************************************)
FairLoop ==
    /\ WF_vars(RenderCheck)
    /\ WF_vars(RenderResize)
    /\ WF_vars(RenderSetLastInput)
    /\ WF_vars(RenderUpdateUniforms)
    /\ WF_vars(RenderSubmit)
    /\ WF_vars(NotifierFinish)
    /\ SF_vars(RunUpdateState)
    /\ SF_vars(RunEnterView)
    /\ SF_vars(RunSetAppList)
    /\ SF_vars(LoadAppList)

SpecLoopFair == InitLoop /\ [][NextLoop]_vars /\ FairLoop

(***************************************************************************)
(* Rpc::with_rpc, one action for each await point or branch of a call.     *)
(***************************************************************************)
loopVars == <<map_renderer, app_alive, appVars, app_map, redraw_requested, pc,
              ret, submitted, callVars, lifecycle, frame_skipped, bgVars>>

\* a task calls with_rpc (spawn_with_rpc makes a task for each call)
WithRpcCall(t) ==
    /\ rpc_task[t].pc \in {"idle", "done"}
    /\ rpc_task' = [rpc_task EXCEPT ![t] = [NoTask EXCEPT !.pc = "lock"]]
    /\ UNCHANGED <<rpc_option, rpc_owner, established, loopVars, mathVars, daemonVars, listenVars>>

\* self.rpc.clone().lock_owned().await
WithRpcLock(t) ==
    /\ rpc_task[t].pc = "lock"
    /\ rpc_owner = None
    /\ rpc_owner' = Some(t)
    /\ rpc_task' = [rpc_task EXCEPT ![t].pc = "check"]
    /\ UNCHANGED <<rpc_option, established, loopVars, mathVars, daemonVars, listenVars>>

\* if rpc_option.is_none()
WithRpcCheck(t) ==
    /\ rpc_task[t].pc = "check"
    /\ rpc_task' = IF NeedsConnect(rpc_option)
                   THEN [rpc_task EXCEPT ![t].pc = "connect"]
                   ELSE [rpc_task EXCEPT ![t].pc = "clone", ![t].connect = "skipped"]
    /\ UNCHANGED <<rpc_option, rpc_owner, established, loopVars, mathVars, daemonVars, listenVars>>

\* MullvadProxyClient::new().await.context(..)? and *rpc_option = Some(rpc)
WithRpcConnect(t, outcome) ==
    /\ rpc_task[t].pc = "connect"
    /\ IF outcome = "Ok"
       THEN /\ established < MaxConnections
            /\ established' = established + 1
            /\ rpc_option' = Some(established + 1)
            /\ rpc_task' = [rpc_task EXCEPT ![t].pc = "clone", ![t].connect = "Ok"]
            /\ UNCHANGED rpc_owner
       ELSE \* the error leaves the block: the guard is dropped, with_rpc returns
            /\ rpc_owner' = None
            /\ rpc_task' = [rpc_task EXCEPT ![t].pc = "done", ![t].connect = "Err",
                                            ![t].result = WithRpcResult("Err", "none")]
            /\ UNCHANGED <<rpc_option, established>>
    /\ UNCHANGED <<loopVars, mathVars, daemonVars, listenVars>>

\* A guard that lives on after the block, while f runs.
GuardHeldOverF(owner) == owner

\* The owner of the mutex once the block `let rpc = { .. };` has ended: the
\* OwnedMutexGuard is a local of the block and is dropped there.
GuardAtBlockEnd(owner) == None

\* rpc_option.as_ref().expect(..).clone(), and the guard dropped at the block's end
WithRpcClone(t) ==
    /\ rpc_task[t].pc = "clone"
    /\ rpc_task' = [rpc_task EXCEPT ![t].pc = "f", ![t].client = rpc_option]
    /\ rpc_owner' = GuardAtBlockEnd(rpc_owner)
    /\ UNCHANGED <<rpc_option, established, loopVars, mathVars, daemonVars, listenVars>>

\* f(rpc).await
WithRpcRunF(t, r) ==
    /\ rpc_task[t].pc = "f"
    /\ rpc_task' = [rpc_task EXCEPT ![t].pc = "done", ![t].f_result = r,
                                    ![t].result = WithRpcResult(rpc_task[t].connect, r)]
    /\ UNCHANGED <<rpc_option, rpc_owner, established, loopVars, mathVars, daemonVars, listenVars>>

Outcomes == {"Ok", "Err"}

(***************************************************************************)
(* SpecRpc: the tasks of the tokio runtime calling with_rpc concurrently,  *)
(* each connection attempt and each f succeeding or failing.               *)
(***************************************************************************)
NextRpc ==
    \/ \E t \in Tasks : WithRpcCall(t)
    \/ \E t \in Tasks : WithRpcLock(t)
    \/ \E t \in Tasks : WithRpcCheck(t)
    \/ \E t \in Tasks : \E outcome \in Outcomes : WithRpcConnect(t, outcome)
    \/ \E t \in Tasks : WithRpcClone(t)
    \/ \E t \in Tasks : \E r \in Outcomes : WithRpcRunF(t, r)

SpecRpc == InitLoop /\ [][NextRpc]_vars

(***************************************************************************)
(* SpecRpcFair: SpecRpc under fair scheduling, with one task whose f need  *)
(* never return (the event listener of main.rs, whose f is the loop of     *)
(* listen_for_events).  The tokio mutex hands the lock out in FIFO order,  *)
(* so a waiting task gets it if it is free again and again (SF); the other *)
(* steps of with_rpc are local or end in an answer or an error from the    *)
(* daemon (WF); the f of every other task returns.                         *)
(***************************************************************************)
\* The task spawned for listen_for_events.
ListenerTask == 1

FairRpc ==
    /\ \A t \in Tasks : SF_vars(WithRpcLock(t))
    /\ \A t \in Tasks : WF_vars(WithRpcCheck(t))
    /\ \A t \in Tasks : WF_vars(\E outcome \in Outcomes : WithRpcConnect(t, outcome))
    /\ \A t \in Tasks : WF_vars(WithRpcClone(t))
    /\ \A t \in Tasks \ {ListenerTask} : WF_vars(\E r \in Outcomes : WithRpcRunF(t, r))

SpecRpcFair == InitLoop /\ [][NextRpc]_vars /\ FairRpc

(***************************************************************************)
(* SpecMath: the matrix helpers of map.rs applied to arguments of their    *)
(* own.                                                                    *)
(***************************************************************************)
\* projection_matrix(w1, h1) and projection_matrix(w2, h2)
ApplyProjectionMatrix ==
    /\ math_out.projection = None
    /\ math_out' = [math_out EXCEPT !.projection =
            Some(<<projection_matrix(math_args.w1, math_args.h1),
                   projection_matrix(math_args.w2, math_args.h2)>>)]
    /\ UNCHANGED <<math_args, loopVars, rpcVars, daemonVars, listenVars>>

\* coordinates_to_theta_phi(coordinate)
ApplyCoordinatesToThetaPhi ==
    /\ math_out.theta_phi = None
    /\ math_out' = [math_out EXCEPT !.theta_phi =
            Some(coordinates_to_theta_phi(math_args.coordinate))]
    /\ UNCHANGED <<math_args, loopVars, rpcVars, daemonVars, listenVars>>

NextMath ==
    \/ ApplyProjectionMatrix
    \/ ApplyCoordinatesToThetaPhi

InitMath ==
    /\ InitApp
    /\ window_size = [width |-> MaxWidth, height |-> MaxHeight]
    /\ zoom = F32(1)
    /\ math_args \in MathArgs
    /\ math_out = NoOut
    /\ InitDaemon

SpecMath == InitMath /\ [][NextMath]_vars

(***************************************************************************)
(* The UI callbacks of main.rs.  Each one spawns a task whose f makes its  *)
(* requests to the daemon one after the other; any request may fail.       *)
(***************************************************************************)
restVars == <<loopVars, rpcVars, mathVars, listenVars>>

Issue(i, request) == [cb EXCEPT ![i].calls = Append(@, request)]

\* on_select_country / on_select_city / on_select_relay /
\* on_set_device_ip_version / on_connect_button: the task is spawned
CallbackInvoked(i, invocation) ==
    /\ cb[i].pc = "idle"
    /\ cb' = [cb EXCEPT ![i] = [NoCallback EXCEPT
                !.kind = invocation.kind,
                !.arg = invocation.arg,
                !.pc = IF invocation.kind = "connect_button"
                       THEN "get_tunnel_state" ELSE "get_settings"]]
    /\ UNCHANGED <<daemon_relay, daemon_tunnel, restVars>>

\* rpc.get_settings().await?.relay_settings, the let-else and the new constraints
GetSettings(i, outcome) ==
    /\ cb[i].pc = "get_settings"
    /\ LET issued == Issue(i, "get_settings")
           rc == daemon_relay.relay_constraints
           new == IF cb[i].kind = "select_location"
                  THEN [rc EXCEPT !.location = LocationOnly(cb[i].arg)]
                  ELSE [rc EXCEPT !.wireguard_ip_version = IpVersionFromDevice(cb[i].arg)]
       IN  cb' = IF outcome = "Err"
                 THEN [issued EXCEPT ![i].pc = "done", ![i].result = "Err"]
                 ELSE IF IsNormal(daemon_relay)
                 THEN [issued EXCEPT ![i].pc = "set_relay_settings",
                                     ![i].read = Some(daemon_relay),
                                     ![i].new = Some(Normal(new))]
                 ELSE [issued EXCEPT ![i].pc = "done",
                                     ![i].read = Some(daemon_relay),
                                     ![i].result = Bail]
    /\ UNCHANGED <<daemon_relay, daemon_tunnel, restVars>>

\* rpc.set_relay_settings(RelaySettings::Normal(relay_constraints)).await?
SetRelaySettings(i, outcome) ==
    /\ cb[i].pc = "set_relay_settings"
    /\ cb' = [Issue(i, "set_relay_settings") EXCEPT ![i].pc = "done", ![i].result = outcome]
    /\ daemon_relay' = IF outcome = "Ok" THEN Unwrap(cb[i].new) ELSE daemon_relay
    /\ UNCHANGED <<daemon_tunnel, restVars>>

\* rpc.get_tunnel_state().await?.is_disconnected()
GetTunnelState(i, outcome) ==
    /\ cb[i].pc = "get_tunnel_state"
    /\ cb' = IF outcome = "Err"
             THEN [Issue(i, "get_tunnel_state") EXCEPT ![i].pc = "done", ![i].result = "Err"]
             ELSE [Issue(i, "get_tunnel_state") EXCEPT
                        ![i].read = Some(daemon_tunnel),
                        ![i].pc = IF is_disconnected(daemon_tunnel)
                                  THEN "connect_tunnel" ELSE "disconnect_tunnel"]
    /\ UNCHANGED <<daemon_relay, daemon_tunnel, restVars>>

\* rpc.connect_tunnel().await?
ConnectTunnel(i, outcome) ==
    /\ cb[i].pc = "connect_tunnel"
    /\ cb' = [Issue(i, "connect_tunnel") EXCEPT ![i].pc = "done", ![i].result = outcome]
    /\ daemon_tunnel' = IF outcome = "Ok" /\ daemon_tunnel \in {"Disconnected", "Error"}
                        THEN "Connecting" ELSE daemon_tunnel
    /\ UNCHANGED <<daemon_relay, restVars>>

\* rpc.disconnect_tunnel().await?
DisconnectTunnel(i, outcome) ==
    /\ cb[i].pc = "disconnect_tunnel"
    /\ cb' = [Issue(i, "disconnect_tunnel") EXCEPT ![i].pc = "done", ![i].result = outcome]
    /\ daemon_tunnel' = IF outcome = "Ok" /\ daemon_tunnel # "Disconnected"
                        THEN "Disconnecting" ELSE daemon_tunnel
    /\ UNCHANGED <<daemon_relay, restVars>>

\* The daemon's tunnel comes up, fails or goes down on its own.
DaemonTunnelProgress(tunnel_state) ==
    /\ \/ daemon_tunnel = "Connecting" /\ tunnel_state \in {"Connected", "Error"}
       \/ daemon_tunnel = "Disconnecting" /\ tunnel_state = "Disconnected"
    /\ daemon_tunnel' = tunnel_state
    /\ UNCHANGED <<daemon_relay, cb, restVars>>

(***************************************************************************)
(* SpecCallbacks: two callback tasks running concurrently against the      *)
(* daemon, whose relay settings are normal or a custom endpoint.           *)
(***************************************************************************)
NextCallbacks ==
    \/ \E i \in Callbacks : \E invocation \in Invocations : CallbackInvoked(i, invocation)
    \/ \E i \in Callbacks : \E outcome \in Outcomes : GetSettings(i, outcome)
    \/ \E i \in Callbacks : \E outcome \in Outcomes : SetRelaySettings(i, outcome)
    \/ \E i \in Callbacks : \E outcome \in Outcomes : GetTunnelState(i, outcome)
    \/ \E i \in Callbacks : \E outcome \in Outcomes : ConnectTunnel(i, outcome)
    \/ \E i \in Callbacks : \E outcome \in Outcomes : DisconnectTunnel(i, outcome)
    \/ \E tunnel_state \in TunnelStates : DaemonTunnelProgress(tunnel_state)

InitCallbacks ==
    /\ InitApp
    /\ window_size = [width |-> MaxWidth, height |-> MaxHeight]
    /\ zoom = F32(1)
    /\ math_args = NoArgs
    /\ math_out = NoOut
    /\ daemon_relay \in InitialRelaySettings
    /\ daemon_tunnel = "Disconnected"
    /\ cb = [i \in Callbacks |-> NoCallback]
    /\ listener = NoListener
    /\ ui = NoUi

SpecCallbacks == InitCallbacks /\ [][NextCallbacks]_vars

(***************************************************************************)
(* listen_for_events (main.rs): the task that follows the daemon's events  *)
(* and posts what they carry to the event loop.  Of the settings only the  *)
(* relay settings are followed here, of the tunnel state only the          *)
(* connection state (its location is followed in SpecLoop).                *)
(***************************************************************************)
loopVarsNoQueue == <<map_renderer, app_alive, appVars, app_map, redraw_requested,
                     pc, ret, submitted, callVars, lifecycle, frame_skipped,
                     last_latlong, st_state, app_list, loader>>
otherVars == <<loopVarsNoQueue, rpcVars, mathVars, cb>>

ListenerClosure(kind, payload) == [kind |-> kind, payload |-> payload]

\* The listener after a request of its setup has been answered.
Advance(l) ==
    IF l.step = Len(ListenerSteps)
    THEN [l EXCEPT !.pc = "update_state"]
    ELSE [l EXCEPT !.step = @ + 1]

AtStep(request) == listener.pc = "setup" /\ ListenerSteps[listener.step] = request

\* rpc.events_listen().await.context(..)?
ListenerEventsListen(outcome) ==
    /\ AtStep("events_listen")
    /\ listener' = IF outcome = "Ok"
                   THEN Advance([listener EXCEPT !.subscribed = TRUE])
                   ELSE [listener EXCEPT !.pc = "error"]
    /\ UNCHANGED <<ui, loop_queue, daemon_relay, daemon_tunnel, otherVars>>

\* rpc.get_tunnel_state().await.context(..)?
ListenerGetTunnelState(outcome) ==
    /\ AtStep("get_tunnel_state")
    /\ listener' = IF outcome = "Ok"
                   THEN Advance([listener EXCEPT !.tunnel_state = Some(daemon_tunnel)])
                   ELSE [listener EXCEPT !.pc = "error", !.events = <<>>,
                                         !.subscribed = FALSE]
    /\ UNCHANGED <<ui, loop_queue, daemon_relay, daemon_tunnel, otherVars>>

\* rpc.get_settings().await.context(..)?
ListenerGetSettings(outcome) ==
    /\ AtStep("get_settings")
    /\ listener' = IF outcome = "Ok"
                   THEN Advance([listener EXCEPT !.settings = Some(daemon_relay)])
                   ELSE [listener EXCEPT !.pc = "error", !.events = <<>>,
                                         !.subscribed = FALSE]
    /\ UNCHANGED <<ui, loop_queue, daemon_relay, daemon_tunnel, otherVars>>

\* update_state(&tunnel_state)? with the state read at the start
ListenerInitialUpdateState ==
    /\ listener.pc = "update_state"
    /\ Post(ListenerClosure("update_state",
                            ConnectionStateFrom(Unwrap(listener.tunnel_state))))
    /\ listener' = [listener EXCEPT !.pc = "update_settings"]
    /\ UNCHANGED <<ui, daemon_relay, daemon_tunnel, otherVars>>

\* update_settings(&settings)? with the settings read at the start
ListenerInitialUpdateSettings ==
    /\ listener.pc = "update_settings"
    /\ Post(ListenerClosure("update_settings", Unwrap(listener.settings)))
    /\ listener' = [listener EXCEPT !.pc = "connected"]
    /\ UNCHANGED <<ui, daemon_relay, daemon_tunnel, otherVars>>

\* the closure that hides the connecting-to-service view
ListenerConnected ==
    /\ listener.pc = "connected"
    /\ Post(ListenerClosure("set_connecting_to_service", FALSE))
    /\ listener' = [listener EXCEPT !.pc = "loop"]
    /\ UNCHANGED <<ui, daemon_relay, daemon_tunnel, otherVars>>

\* while let Some(event) = events.next().await: one event of the stream
ListenerNextEvent ==
    /\ listener.pc = "loop"
    /\ listener.events # <<>>
    /\ LET event == Head(listener.events)
           rest == [listener EXCEPT !.events = Tail(@)]
       IN  CASE event.kind = "TunnelState" ->
                  /\ listener' = [rest EXCEPT !.tunnel_state = Some(event.new)]
                  /\ Post(ListenerClosure("update_state", ConnectionStateFrom(event.new)))
             [] event.kind = "Settings" ->
                  /\ listener' = [rest EXCEPT !.settings = Some(event.new)]
                  /\ Post(ListenerClosure("update_settings", event.new))
             [] OTHER ->
                  /\ listener' = rest
                  /\ UNCHANGED loop_queue
    /\ UNCHANGED <<ui, daemon_relay, daemon_tunnel, otherVars>>

\* the stream ends (the loop is left with Ok) or yields an error (`event?`)
ListenerStreamEnds(outcome) ==
    /\ listener.pc = "loop"
    /\ listener.events = <<>>
    /\ listener' = [listener EXCEPT !.pc = IF outcome = "Ok" THEN "returned" ELSE "error",
                                    !.subscribed = FALSE]
    /\ UNCHANGED <<ui, loop_queue, daemon_relay, daemon_tunnel, otherVars>>

\* inspect_err: the connecting-to-service view is shown again
ListenerReportsError ==
    /\ listener.pc = "error"
    /\ Post(ListenerClosure("set_connecting_to_service", TRUE))
    /\ listener' = [listener EXCEPT !.pc = "failed", !.events = <<>>, !.subscribed = FALSE]
    /\ UNCHANGED <<ui, daemon_relay, daemon_tunnel, otherVars>>

\* The daemon sends an event to the stream of a subscribed listener.
Deliver(l, event) ==
    IF l.subscribed THEN [l EXCEPT !.events = Append(@, event)] ELSE l

CanDeliver == ~listener.subscribed \/ Len(listener.events) < MaxStream

\* the daemon's tunnel changes state: DaemonEvent::TunnelState(new)
DaemonTunnelStateChanged(new) ==
    /\ new # daemon_tunnel
    /\ CanDeliver
    /\ daemon_tunnel' = new
    /\ listener' = Deliver(listener, [kind |-> "TunnelState", new |-> new])
    /\ UNCHANGED <<ui, loop_queue, daemon_relay, otherVars>>

\* the daemon's settings change: DaemonEvent::Settings(new)
DaemonSettingsChanged(new) ==
    /\ new # daemon_relay
    /\ CanDeliver
    /\ daemon_relay' = new
    /\ listener' = Deliver(listener, [kind |-> "Settings", new |-> new])
    /\ UNCHANGED <<ui, loop_queue, daemon_tunnel, otherVars>>

\* any other DaemonEvent (`_ => continue`)
DaemonOtherEvent ==
    /\ listener.subscribed
    /\ Len(listener.events) < MaxStream
    /\ listener' = Deliver(listener, [kind |-> "Other", new |-> None])
    /\ UNCHANGED <<ui, loop_queue, daemon_relay, daemon_tunnel, otherVars>>

\* the closure of update_state: state.set_conn(conn_state)
RunListenerUpdateState ==
    /\ Head1("update_state")
    /\ ui' = [ui EXCEPT !.conn = Some(Head(loop_queue).payload)]
    /\ UNCHANGED <<listener, daemon_relay, daemon_tunnel, otherVars>>

\* the closure of update_settings: update_relay_settings(&ui_state, ..)
RunListenerUpdateSettings ==
    /\ Head1("update_settings")
    /\ ui' = [ui EXCEPT !.relay = Some(update_relay_settings(Head(loop_queue).payload))]
    /\ UNCHANGED <<listener, daemon_relay, daemon_tunnel, otherVars>>

\* the closure of set_connecting_to_service
RunSetConnectingToService ==
    /\ Head1("set_connecting_to_service")
    /\ ui' = [ui EXCEPT !.connecting_to_service = Some(Head(loop_queue).payload)]
    /\ UNCHANGED <<listener, daemon_relay, daemon_tunnel, otherVars>>

(***************************************************************************)
(* SpecListen: one run of listen_for_events beside a daemon whose tunnel   *)
(* state and settings change at any time, and the event loop running the   *)
(* closures the listener posts.                                            *)
(***************************************************************************)
NextListen ==
    \/ \E outcome \in Outcomes : ListenerEventsListen(outcome)
    \/ \E outcome \in Outcomes : ListenerGetTunnelState(outcome)
    \/ \E outcome \in Outcomes : ListenerGetSettings(outcome)
    \/ ListenerInitialUpdateState
    \/ ListenerInitialUpdateSettings
    \/ ListenerConnected
    \/ ListenerNextEvent
    \/ \E outcome \in Outcomes : ListenerStreamEnds(outcome)
    \/ ListenerReportsError
    \/ \E new \in TunnelStates : DaemonTunnelStateChanged(new)
    \/ \E new \in ListenRelaySettings : DaemonSettingsChanged(new)
    \/ DaemonOtherEvent
    \/ RunListenerUpdateState
    \/ RunListenerUpdateSettings
    \/ RunSetConnectingToService

SpecListen == InitLoop /\ [][NextListen]_vars

(***************************************************************************)
(* Properties.                                                             *)
(***************************************************************************)
\* Where the event-loop thread is while a render call is in progress.
RenderPcs == {"render", "resize", "set_last_input", "update_uniforms", "submit"}

\* The Map the notifier holds.
TheMap == Unwrap(map_renderer)

\* A render call has just returned to the notifier.
Returned == pc = "notify"

ZeroDim(size) == size.width = 0 \/ size.height = 0

\* C1: a render call whose input equals the cached last input (size,
\* coordinates and zoom all equal) returns None at once and touches nothing:
\* no texture is created, no uniform buffer written, nothing submitted, and
\* the Map (last_input, texture_size, both textures, both uniform buffers)
\* is as it was.
C1_CacheHitTouchesNothing ==
    [][ ( /\ pc = "render"
          /\ pc' # "render"
          /\ IsSome(TheMap.last_input)
          /\ MapInputEq(Unwrap(TheMap.last_input), input) )
        => ( /\ pc' = "notify"
             /\ ret' = None
             /\ map_renderer' = map_renderer
             /\ submitted' = submitted
             /\ call'.created = 0
             /\ call'.writes = 0
             /\ call'.subs = 0 ) ]_vars

C1_Witness ==
    /\ Returned
    /\ call.hit
    /\ ret = None
    /\ TheMap.last_input = Some(input)
    /\ call.created = 0 /\ call.writes = 0 /\ call.subs = 0

\* C2 (as claimed): two render calls in a row with the same input make
\* exactly one GPU submission between them, and the second returns None, for
\* every input and every state of the Map.
C2_Original ==
    (Returned /\ IsSome(prev) /\ Unwrap(prev).input = input)
        => (Unwrap(prev).subs + call.subs = 1 /\ ret = None)

\* C2 (amended): for an input whose zoom is not NaN, two render calls in a
\* row with that input make exactly one GPU submission between them when the
\* first call is not itself a cache hit and none when it is, and the second
\* call returns None.
C2_TwoCallsOneSubmission ==
    (Returned /\ IsSome(prev) /\ Unwrap(prev).input = input /\ ~input.zoom.nan)
        => /\ ret = None
           /\ call.subs = 0
           /\ Unwrap(prev).subs + call.subs = IF Unwrap(prev).hit THEN 0 ELSE 1

C2_Witness ==
    /\ Returned
    /\ IsSome(prev)
    /\ Unwrap(prev).input = input
    /\ ~input.zoom.nan
    /\ ~Unwrap(prev).hit
    /\ Unwrap(prev).subs = 1
    /\ call.subs = 0
    /\ ret = None

\* C3: render draws and returns a frame whenever it is the first call on the
\* Map or the input differs from the previous call's in size, coordinates or
\* zoom; it returns None only when the input is identical to the previous
\* call's.
C3_FrameUnlessIdentical ==
    Returned =>
        /\ (prev = None \/ Unwrap(prev).input # input)
               => (IsSome(ret) /\ call.subs = 1)
        /\ ret = None => (IsSome(prev) /\ Unwrap(prev).input = input)

C3_Witness ==
    /\ Returned
    /\ IsSome(prev)
    /\ Unwrap(prev).input.size = input.size
    /\ Unwrap(prev).input.coords = input.coords
    /\ ~Unwrap(prev).input.zoom.nan
    /\ ~input.zoom.nan
    /\ Unwrap(prev).input.zoom # input.zoom
    /\ IsSome(ret)
    /\ call.subs = 1

C5_TexturesNeverEmpty ==
    IsSome(map_renderer) =>
        \A t \in {TheMap.texture, TheMap.depth_texture} :
            t.width > 0 /\ t.height > 0 /\ t.valid

C5_Witness ==
    /\ IsSome(map_renderer)
    /\ TheMap.last_input = None
    /\ TheMap.texture_size[1] = 0
    /\ TheMap.texture.width = 1
    /\ TheMap.texture.valid

IsPixelBuffer(frame, w, h) ==
    /\ frame.type = "PixelBuffer"
    /\ Len(frame.bytes) = w * h * 4

C9_OneRenderAtATime ==
    /\ rendering \in {0, 1}
    /\ rendering = 1 <=> pc \in RenderPcs

C9_Witness ==
    /\ rendering = 1
    /\ pc = "resize"
    /\ loop_queue # <<>>
    /\ loader = "running"

\* C10: render is entered only from the idle event loop, on a renderer that
\* a RenderingSetup with a WGPU device constructed and no RenderingTeardown
\* has dropped, and runs check, resize, draw in that order back to idle; with
\* no such renderer (before setup or after teardown) no step enters render,
\* sets the map image, submits anything or requests a redraw.
C10_Lifecycle ==
    [][ /\ (pc' \in RenderPcs /\ pc \notin RenderPcs)
           => (pc = "idle" /\ pc' = "render" /\ lifecycle = "ready" /\ IsSome(map_renderer))
        /\ pc \in RenderPcs => (lifecycle' = "ready" /\ IsSome(map_renderer'))
        /\ pc' # pc
           => <<pc, pc'>> \in { <<"idle", "render">>, <<"render", "notify">>,
                                <<"render", "resize">>, <<"resize", "set_last_input">>,
                                <<"set_last_input", "update_uniforms">>,
                                <<"update_uniforms", "submit">>, <<"submit", "notify">>,
                                <<"notify", "idle">>, <<"idle", "panicked">> }
        /\ lifecycle # "ready"
           => ( /\ pc' \notin RenderPcs
                /\ rendering' = rendering
                /\ app_map' = app_map
                /\ submitted' = submitted
                /\ redraw_requested' = FALSE \/ redraw_requested' = redraw_requested ) ]_vars

C10_Witness ==
    /\ frame_skipped
    /\ lifecycle = "torn"
    /\ map_renderer = None
    /\ pc = "idle"
    /\ rendering = 0
    /\ ~redraw_requested
    /\ IsSome(app_map)

\* C11: with_rpc returns Err exactly when the connection attempt failed or f
\* returned Err; a failed attempt never invokes f (no client is handed out),
\* leaves the cached client empty and the mutex free, and a call that then
\* finds the cache empty goes on to attempt the connection.
C11_ErrIffConnectOrFFails ==
    [][\A t \in Tasks :
        /\ rpc_task'[t].pc = "done" =>
              /\ rpc_task'[t].result \in Outcomes
              /\ rpc_task'[t].result = "Err" <=>
                    (rpc_task'[t].connect = "Err" \/ rpc_task'[t].f_result = "Err")
              /\ rpc_task'[t].connect = "Err" =>
                    (rpc_task'[t].f_result = "none" /\ rpc_task'[t].client = None)
        /\ (rpc_task[t].pc = "connect" /\ rpc_task'[t].connect = "Err") =>
              (rpc_option' = None /\ rpc_owner' = None /\ rpc_task'[t].pc = "done")
        /\ (rpc_task[t].pc = "check" /\ rpc_option = None
                /\ rpc_task'[t] # rpc_task[t]) =>
              rpc_task'[t].pc = "connect"]_vars

\* One call has failed to connect and returned Err, and the call after it
\* is attempting the connection.
C11_Witness ==
    \E t, u \in Tasks :
        /\ t # u
        /\ rpc_task[t].pc = "done"
        /\ rpc_task[t].connect = "Err"
        /\ rpc_task[t].result = "Err"
        /\ rpc_task[u].pc = "connect"
        /\ rpc_option = None

\* C12: the projection matrix depends only on the ratio of width to height:
\* for positive w1, h1, w2, h2 with w1/h1 = w2/h2, projection_matrix(w1, h1)
\* equals projection_matrix(w2, h2).
C12_ProjectionDependsOnAspectOnly ==
    (IsSome(math_out.projection)
        /\ math_args.w1 * math_args.h2 = math_args.w2 * math_args.h1) =>
    Unwrap(math_out.projection)[1] = Unwrap(math_out.projection)[2]

\* Two different sizes of the same aspect ratio have been projected.
C12_Witness ==
    /\ IsSome(math_out.projection)
    /\ math_args.w1 # math_args.w2
    /\ math_args.h1 > 1
    /\ math_args.w1 * math_args.h2 = math_args.w2 * math_args.h1
    /\ Unwrap(math_out.projection)[1] = Unwrap(math_out.projection)[2]

\* An angle (a signed fraction of PI) is deg * PI / 180.
IsDegrees(angle, deg) ==
    /\ angle.frac[2] > 0
    /\ angle.sign * angle.frac[1] * 180 = deg * angle.frac[2]

\* C13: coordinates_to_theta_phi maps (latitude, longitude) in degrees to
\* (theta, phi) with theta = longitude * pi/180 and phi = latitude * pi/180:
\* (0,0) gives (0,0), (90,0) gives phi = pi/2 and theta = 0, and (0,180)
\* gives theta = pi and phi = 0.
C13_ThetaFromLongitudePhiFromLatitude ==
    IsSome(math_out.theta_phi) =>
    LET c == math_args.coordinate
        theta == Unwrap(math_out.theta_phi)[1]
        phi == Unwrap(math_out.theta_phi)[2]
        zero == [sign |-> 0, frac |-> <<0, 1>>]
    IN  /\ IsDegrees(theta, c[2])
        /\ IsDegrees(phi, c[1])
        /\ c = <<0, 0>> => (theta = zero /\ phi = zero)
        /\ c = <<90, 0>> => (phi = [sign |-> 1, frac |-> <<1, 2>>] /\ theta = zero)
        /\ c = <<0, 180>> => (theta = [sign |-> 1, frac |-> <<1, 1>>] /\ phi = zero)

\* The north pole has been converted: phi is half of PI.
C13_Witness ==
    /\ IsSome(math_out.theta_phi)
    /\ math_args.coordinate = <<90, 0>>
    /\ Unwrap(math_out.theta_phi)[2] = [sign |-> 1, frac |-> <<1, 2>>]

\* C14 as claimed: a render call writes the projection only when the size
\* differs from the previously rendered size and the model-view matrices
\* only when zoom or coordinates changed.  (A write replaces a whole uniform
\* block: projection, model-view and color together.)
C14_Original ==
    (Returned /\ IsSome(prev) /\ call.writes > 0) =>
        LET before == Unwrap(prev).input
        IN  /\ input.size # before.size
            /\ (input.coords # before.coords \/ ~F32Eq(input.zoom, before.zoom))

\* C14: a render call that is not a cache hit writes both uniform blocks,
\* each with the projection and the model-view computed from the call's
\* input, whether or not the size, the zoom or the coordinates differ from
\* those of the call before; a cache hit writes neither.
C14_BothBlocksWrittenUnlessCacheHit ==
    Returned =>
        /\ call.writes = IF IsSome(ret) THEN 2 ELSE 0
        /\ (IsSome(prev) /\ MapInputEq(Unwrap(prev).input, input)) => call.writes = 0
        /\ IsSome(ret) =>
              /\ TheMap.land_uniform_buffer.projection =
                    projection_matrix(input.size.width, input.size.height)
              /\ TheMap.contour_uniform_buffer.projection =
                    projection_matrix(input.size.width, input.size.height)
              /\ TheMap.contour_uniform_buffer.model_view =
                    model_view(input.zoom, input.coords)
              /\ TheMap.land_uniform_buffer.model_view.translation =
                    model_view(input.zoom, input.coords).translation

\* A call that differs from the one before in the zoom only has written
\* both blocks, the unchanged projection included.
C14_Witness ==
    /\ Returned
    /\ IsSome(prev)
    /\ Unwrap(prev).subs = 1
    /\ Unwrap(prev).input.size = input.size
    /\ Unwrap(prev).input.coords = input.coords
    /\ ~F32Eq(Unwrap(prev).input.zoom, input.zoom)
    /\ ~input.zoom.nan
    /\ call.writes = 2
    /\ TheMap.land_uniform_buffer.projection =
          projection_matrix(input.size.width, input.size.height)

\* The dimensions of the color and depth textures the Map holds.
ActualTextureSize(m) == <<m.texture.width, m.texture.height>>

\* C15: render recreates the color and depth textures exactly when the
\* requested size (a zero dimension counted as 1, as render takes it)
\* differs from the size of the current textures; a render whose input
\* differs from the previous one only in zoom or coordinates keeps the same
\* textures and the same texture_size, and draws into the existing color
\* texture.
C15_RecreateExactlyOnSizeChange ==
    [][(pc = "resize" /\ pc' = "set_last_input") =>
        /\ (call'.created = call.created + 1) <=>
              (NewSize(input.size) # ActualTextureSize(TheMap))
        /\ (call'.created = call.created) =>
              /\ Unwrap(map_renderer').texture = TheMap.texture
              /\ Unwrap(map_renderer').depth_texture = TheMap.depth_texture
              /\ Unwrap(map_renderer').texture_size = TheMap.texture_size
        /\ (IsSome(prev) /\ Unwrap(prev).input.size = input.size) =>
              call'.created = call.created]_vars

\* C16: every render call that is not a cache hit makes exactly one GPU
\* submission (a cache hit makes none), and a submission holds, in this
\* order, the clear of the color target to transparent black and of depth
\* to 1.0, the indexed land draw with the land pipeline and land bind group,
\* and the contour draw with the contour pipeline and contour bind group;
\* no submission holds only one of the two draws.
C16_OneSubmissionClearLandContour ==
    /\ Returned =>
          /\ call.subs = IF IsSome(ret) THEN 1 ELSE 0
          /\ IsSome(submitted) <=> IsSome(ret)
          /\ (IsSome(prev) /\ MapInputEq(Unwrap(prev).input, input)) => submitted = None
    /\ IsSome(submitted) =>
          LET cmds == Unwrap(submitted).commands
              draws == {i \in 1..Len(cmds) : cmds[i].op \in {"draw_indexed", "draw"}}
          IN  /\ Len(cmds) = 3
              /\ cmds[1] = [op |-> "clear", color |-> <<0, 0, 0, 0>>, depth |-> 1]
              /\ cmds[2].op = "draw_indexed"
              /\ cmds[2].pipeline = "pipeline"
              /\ cmds[2].bind_group = "land_bind_group"
              /\ cmds[3].op = "draw"
              /\ cmds[3].pipeline = "contour_pipeline"
              /\ cmds[3].bind_group = "contour_bind_group"
              /\ Cardinality(draws) = 2
              /\ Unwrap(submitted).color_view = TheMap.texture
              /\ Unwrap(submitted).depth_view = TheMap.depth_texture

\* A second drawing call on the same Map has made its one submission.
C16_Witness ==
    /\ Returned
    /\ IsSome(prev)
    /\ Unwrap(prev).subs = 1
    /\ ~call.hit
    /\ call.subs = 1
    /\ IsSome(submitted)
    /\ Len(Unwrap(submitted).commands) = 3

\* C17: in every render that is not a cache hit the land and the contour
\* uniform blocks carry the same projection matrix, the contour block
\* carries model_view(zoom, coords) unscaled with the contour color, and the
\* land block carries that same model-view combined with a uniform scale of
\* 0.9999 and the land color.
C17_UniformBlocks ==
    (Returned /\ IsSome(ret)) =>
        LET land == Unwrap(submitted).land_uniforms
            contour == Unwrap(submitted).contour_uniforms
            mv == model_view(input.zoom, input.coords)
        IN  /\ land.projection = contour.projection
            /\ land.projection.m = "perspective_rh"
            /\ contour.model_view = mv
            /\ contour.model_view.scale = <<1, 1>>
            /\ contour.color = CONTOUR_COLOR
            /\ land.model_view = [mv EXCEPT !.scale = <<9999, 10000>>]
            /\ land.color = LAND_COLOR

\* A drawing call away from the origin: the two blocks differ in the scale
\* and the color only.
C17_Witness ==
    /\ Returned
    /\ IsSome(ret)
    /\ input.coords = <<57, 12>>
    /\ Unwrap(submitted).land_uniforms.model_view.scale = <<9999, 10000>>
    /\ Unwrap(submitted).contour_uniforms.model_view.rotation_x =
          Unwrap(submitted).land_uniforms.model_view.rotation_x
    /\ Unwrap(submitted).land_uniforms.color # Unwrap(submitted).contour_uniforms.color

\* C18: on every BeforeRendering tick while a renderer and the window
\* exist, exactly one render call is made, with the window's current size,
\* latitude/longitude and zoom; the UI map image is replaced if and only if
\* that call returned a texture (and then by that texture), and a redraw is
\* requested on every such tick whether or not a frame was produced.
C18_TickRendersOnceAndRequestsRedraw ==
    [][/\ (pc = "idle" /\ pc' = "render") =>
             /\ CanRender(map_renderer, app_alive)
             /\ rendering = 0 /\ rendering' = 1
             /\ call'.stage = "running"
             /\ call'.input = [size |-> window_size,
                               coords |-> <<latitude, longitude>>,
                               zoom |-> zoom]
       /\ (pc = "idle" /\ frame_skipped' /\ ~frame_skipped) =>
             ~CanRender(map_renderer, app_alive)
       /\ (pc = "notify" /\ pc' = "idle") =>
             /\ call.stage = "returned" /\ call' = call
             /\ call.subs + (IF call.hit THEN 1 ELSE 0) = 1
             /\ rendering = 0 /\ rendering' = 0
             /\ input = [size |-> window_size,
                         coords |-> <<latitude, longitude>>,
                         zoom |-> zoom]
             /\ IsSome(ret) => app_map' = Some(Unwrap(ret))
             /\ ret = None => app_map' = app_map
             /\ redraw_requested'
       /\ (pc \in RenderPcs \cup {"notify"}) =>
             (app_map' = app_map \/ pc = "notify")]_vars

\* A tick whose render call was a cache hit has ended: the image of an
\* earlier tick is still shown and a redraw is requested.
C18_Witness ==
    /\ pc = "idle"
    /\ call.stage = "returned"
    /\ call.hit
    /\ redraw_requested
    /\ IsSome(app_map)
    /\ Unwrap(app_map) = TheMap.texture

\* The tasks that are between lock_owned().await and the drop of the guard.
InGuard == {t \in Tasks : rpc_task[t].pc \in {"check", "connect", "clone"}}

\* C19: across any interleaving of concurrent with_rpc calls on an Rpc
\* handle and its clones at most one connection is ever established: the
\* check for an existing client and the connection attempt happen under the
\* same mutex, and once a client is stored every later call receives a
\* clone of that same client and the stored client is never cleared or
\* replaced.
C19_AtMostOneConnection ==
    [][/\ established' <= 1
       /\ Cardinality(InGuard') <= 1
       /\ \A t \in InGuard' : rpc_owner' = Some(t)
       /\ IsSome(rpc_option') <=> established' = 1
       /\ IsSome(rpc_option) => rpc_option' = rpc_option
       /\ \A t \in Tasks :
            /\ (IsSome(rpc_option) /\ rpc_task[t].pc = "check"
                    /\ rpc_task'[t] # rpc_task[t]) =>
                  rpc_task'[t].pc = "clone"
            /\ rpc_task'[t].pc \in {"f", "done"} /\ rpc_task'[t].connect # "Err" =>
                  (IsSome(rpc_task'[t].client) /\ rpc_task'[t].client = rpc_option')]_vars

\* One task opened the connection and another one, calling later, has been
\* given a clone of that client without connecting.
C19_Witness ==
    \E t, u \in Tasks :
        /\ t # u
        /\ rpc_task[t].connect = "Ok"
        /\ rpc_task[t].pc \in {"f", "done"}
        /\ rpc_task[u].connect = "skipped"
        /\ rpc_task[u].pc \in {"f", "done"}
        /\ rpc_task[u].client = rpc_task[t].client
        /\ established = 1

\* C20: the app list is loaded at most once: load_app_list is spawned only
\* by an enter-view event that finds the split-tunneling state None, the
\* state is set to LoadingApps in the same event-loop step, and the state
\* only ever moves None -> LoadingApps -> Available and never goes back
\* (Available only together with the app list); under fair scheduling and
\* a live window LoadingApps is eventually followed by Available with the
\* app list set.
C20_AppListLoadedOnce ==
    /\ [][
          /\ (loader' = "running" /\ loader # "running") =>
                /\ loader = "unspawned"
                /\ st_state = "None"
                /\ st_state' = "LoadingApps"
                /\ Head(loop_queue).kind = "enter_view"
          /\ (loader' # loader) =>
                <<loader, loader'>> \in {<<"unspawned", "running">>, <<"running", "done">>}
          /\ (st_state' # st_state) =>
                <<st_state, st_state'>> \in {<<"None", "LoadingApps">>,
                                             <<"LoadingApps", "Available">>}
          /\ (st_state' = "LoadingApps" /\ st_state = "None") => loader' = "running"
          /\ (st_state' = "Available") => IsSome(app_list')
          /\ IsSome(app_list) => app_list' = app_list]_vars
    /\ (st_state = "LoadingApps") ~>
            ((st_state = "Available" /\ IsSome(app_list)) \/ ~app_alive)

\* The list is there and a further enter-view event is waiting to run.
C20_Witness ==
    /\ st_state = "Available"
    /\ IsSome(app_list)
    /\ loader = "done"
    /\ app_alive
    /\ loop_queue # <<>>
    /\ Head(loop_queue).kind = "enter_view"

\* C22: in every reachable state, the state right after Map::new included,
\* the stored texture_size equals the actual dimensions of the color and the
\* depth texture, so a render whose clamped requested size equals the
\* actual texture size never recreates the textures.
C22_TextureSizeIsActualSize ==
    /\ [](IsSome(map_renderer) =>
            /\ TheMap.texture_size = ActualTextureSize(TheMap)
            /\ TheMap.texture_size = <<TheMap.depth_texture.width,
                                       TheMap.depth_texture.height>>)
    /\ [][(pc = "resize" /\ pc' = "set_last_input"
              /\ NewSize(input.size) = ActualTextureSize(TheMap)) =>
            Unwrap(map_renderer').texture = TheMap.texture]_vars

\* C23: in every render that is not a cache hit the projection matrix is
\* computed from the same width and height as the color texture the frame
\* is drawn into, for every requested size, one with a zero dimension
\* included.
C23_ProjectionFromTextureSize ==
    (Returned /\ IsSome(ret)) =>
        /\ Unwrap(submitted).land_uniforms.projection =
              projection_matrix(Unwrap(submitted).color_view.width,
                                Unwrap(submitted).color_view.height)
        /\ Unwrap(submitted).contour_uniforms.projection =
              projection_matrix(Unwrap(submitted).color_view.width,
                                Unwrap(submitted).color_view.height)

\* C24: with_rpc holds the connection mutex only while obtaining or
\* creating the client and releases it before f runs: a call whose f never
\* returns (the event listener) does not prevent any other call from
\* obtaining the client and running its own f (or ending with the error of
\* a failed connection attempt), and the f of two calls may run
\* concurrently.
C24_MutexReleasedBeforeF ==
    /\ [](\A t \in Tasks :
            /\ rpc_task[t].pc \in {"idle", "lock", "f", "done"} => rpc_owner # Some(t)
            /\ rpc_owner = Some(t) => rpc_task[t].pc \in {"check", "connect", "clone"})
    /\ \A u \in Tasks \ {ListenerTask} :
            (rpc_task[u].pc = "lock") ~> (rpc_task[u].pc \in {"f", "done"})
    /\ \A u \in Tasks \ {ListenerTask} :
            (rpc_task[u].pc = "lock" /\ IsSome(rpc_option)) ~> (rpc_task[u].pc = "f")

\* The listener's f is running, another call took the mutex after it, got
\* the same client and is running its f at the same time.
C24_Witness ==
    \E u \in Tasks \ {ListenerTask} :
        /\ rpc_task[ListenerTask].pc = "f"
        /\ rpc_task[ListenerTask].connect = "Ok"
        /\ rpc_task[u].pc = "f"
        /\ rpc_task[u].connect = "skipped"
        /\ rpc_task[u].client = rpc_task[ListenerTask].client
        /\ rpc_owner = None

\* The requests a callback task has issued, as a set.
Issued(i) == {cb[i].calls[k] : k \in 1..Len(cb[i].calls)}

SettingsCallbacks == {"select_location", "set_device_ip_version"}

\* C21: when the daemon's relay settings are not RelaySettings::Normal
\* (custom relay), the select-country, select-city, select-relay and
\* set-device-ip-version callbacks each end with an error and make no
\* set_relay_settings call, so the daemon's settings are unchanged.
C21_CustomRelayBails ==
    /\ [](\A i \in Callbacks :
            (cb[i].kind \in SettingsCallbacks /\ IsSome(cb[i].read)
                /\ ~IsNormal(Unwrap(cb[i].read))) =>
                  /\ cb[i].pc = "done"
                  /\ cb[i].result = "Err"
                  /\ cb[i].calls = <<"get_settings">>)
    /\ [][~IsNormal(daemon_relay) => daemon_relay' = daemon_relay]_vars

\* Against a custom endpoint a select-relay and a set-device-ip-version
\* callback have both ended.
C21_Witness ==
    /\ daemon_relay = CustomTunnelEndpoint
    /\ cb["first"].kind = "select_location"
    /\ cb["first"].arg[1] = "Hostname"
    /\ cb["first"].result = "Err"
    /\ cb["first"].read = Some(CustomTunnelEndpoint)
    /\ cb["second"].kind = "set_device_ip_version"
    /\ cb["second"].result = "Err"
    /\ cb["second"].read = Some(CustomTunnelEndpoint)

\* C25: after a select-location callback and a set-device-ip-version
\* callback have both completed successfully, in any interleaving of their
\* get_settings and set_relay_settings steps, the daemon's relay settings
\* contain both the selected location and the selected IP version; each
\* callback changes only its own field of the relay constraints.
C25_BothSelectionsKept ==
    \A i, j \in Callbacks :
        (/\ cb[i].kind = "select_location" /\ cb[i].pc = "done" /\ cb[i].result = "Ok"
         /\ cb[j].kind = "set_device_ip_version" /\ cb[j].pc = "done"
         /\ cb[j].result = "Ok") =>
            /\ IsNormal(daemon_relay)
            /\ daemon_relay.relay_constraints.location = LocationOnly(cb[i].arg)
            /\ daemon_relay.relay_constraints.wireguard_ip_version =
                  IpVersionFromDevice(cb[j].arg)
            /\ Unwrap(cb[i].new).relay_constraints.wireguard_ip_version =
                  Unwrap(cb[i].read).relay_constraints.wireguard_ip_version
            /\ Unwrap(cb[j].new).relay_constraints.location =
                  Unwrap(cb[j].read).relay_constraints.location

\* The tunnel commands among the requests of a callback task.
TunnelCommands(i) ==
    {k \in 1..Len(cb[i].calls) : cb[i].calls[k] \in {"connect_tunnel", "disconnect_tunnel"}}

\* C27: each press of the connect button issues at most one tunnel command,
\* chosen by the tunnel state read in that same task: connect_tunnel if and
\* only if that state is disconnected, disconnect_tunnel otherwise, and no
\* command at all if reading the state fails.
C27_OneCommandByStateRead ==
    \A i \in Callbacks :
        cb[i].kind = "connect_button" =>
            /\ Cardinality(TunnelCommands(i)) <= 1
            /\ Issued(i) \subseteq {"get_tunnel_state", "connect_tunnel", "disconnect_tunnel"}
            /\ "connect_tunnel" \in Issued(i) =>
                  (cb[i].read = Some("Disconnected") /\ cb[i].calls[1] = "get_tunnel_state")
            /\ "disconnect_tunnel" \in Issued(i) =>
                  (IsSome(cb[i].read) /\ cb[i].read # Some("Disconnected")
                      /\ cb[i].calls[1] = "get_tunnel_state")
            /\ (cb[i].pc = "done" /\ cb[i].read = None) =>
                  (cb[i].calls = <<"get_tunnel_state">> /\ cb[i].result = "Err")
            /\ (cb[i].pc = "done" /\ IsSome(cb[i].read)) =>
                  Cardinality(TunnelCommands(i)) = 1

\* One press found the tunnel disconnected and connected it; a later press
\* found it in the error state and asked to disconnect.
C27_Witness ==
    \E i, j \in Callbacks :
        /\ cb[i].calls = <<"get_tunnel_state", "connect_tunnel">>
        /\ cb[i].result = "Ok"
        /\ cb[j].calls = <<"get_tunnel_state", "disconnect_tunnel">>
        /\ cb[j].read = Some("Error")
        /\ cb[j].pc = "done"


\* Every delivered event has been taken from the stream and every closure the
\* listener posted has been run.
AllEventsProcessed ==
    /\ listener.pc = "loop"
    /\ listener.events = <<>>
    /\ loop_queue = <<>>

====
